---- MODULE Spec2Model ----
(***************************************************************************)
(* State-machine model of integuru/util/doc_page_parser.py: the crawl loop *)
(* of parse_api_documentation with the functions it calls, and the pure    *)
(* functions of the module applied to bounded inputs.                      *)
(*                                                                         *)
(* Spec    the crawl: one run of parse_api_documentation(url,              *)
(*         use_playwright) against a site whose answers (HTTP responses,   *)
(*         rendered pages, spec files) are chosen by the environment at    *)
(*         the moment the code asks for them.                              *)
(* FairSpec the same with weak fairness of the program's steps (a Python   *)
(*         program that can take a step takes it).                         *)
(* SpecFn  the pure functions applied once to an input drawn from a        *)
(*         bounded set.                                                    *)
(***************************************************************************)
EXTENDS Integers, Sequences, FiniteSets, TLC

\* ------------------------------------------------------------------ bounds
\* Number of distinct page paths on the documentation host.
NumPaths == 3
\* Number of places of a page that find_spec_link looks at.
MaxTags == 2
\* ------------------------------------------------------- program constants
\* fetch_documentation_html: "if len(resp.text) > 300".
MinContentLen == 300

\* ---------------------------------------------------------------- URLs
DocsHost == "docs.example.com"
OtherHost == "other.com"

\* A URL is the pair urlparse sees: netloc and the rest.  path 0 stands for
\* no path at all; the empty string is host "" with path 0.
EmptyUrl == [host |-> "", path |-> 0]
\* A non-empty string that is no URL (no scheme, no host).
InvalidUrl == [host |-> "", path |-> 1]
RootUrl == [host |-> DocsHost, path |-> 1]

PagePaths == 1..NumPaths
\* The one spec file of the site, e.g. /openapi.json.
SpecPaths == {NumPaths + 1}
PageUrls == [host : {DocsHost}, path : PagePaths]
ExtUrls == [host : {OtherHost}, path : {1}]
SpecUrls == [host : {DocsHost, OtherHost}, path : SpecPaths]
AllUrls == PageUrls \cup ExtUrls \cup SpecUrls \cup {EmptyUrl, InvalidUrl}

\* urlparse(url).netloc
netloc(u) == u.host

\* An attribute value (href or src) as written in the page: relative to the
\* page ("rel"), absolute ("abs"), or malformed such that urljoin raises
\* ValueError ("bad"): "//[bad" (host "", nothing a scan for an absolute URL
\* literal finds) or "http://[bad/..." (host "[bad").
BadHref == [kind |-> "bad", host |-> "", path |-> 0]
BadAbsHref(p) == [kind |-> "bad", host |-> "[bad", path |-> p]
RelHref(p) == [kind |-> "rel", host |-> "", path |-> p]
AbsHref(u) == [kind |-> "abs", host |-> u.host, path |-> u.path]

\* urljoin(base, href) for a well-formed href.
urljoin(base, h) ==
    IF h.kind = "abs" THEN [host |-> h.host, path |-> h.path]
    ELSE [host |-> base.host, path |-> h.path]

\* urljoin(base, href) raises ValueError.
urljoin_raises(h) == h.kind = "bad"

\* ---------------------------------------------------------------- HTML
\* A page's text as far as the module reads it: its length, the hrefs of the
\* anchors inside navigation containers (nav) and inside the first
\* main-content container (main), and, in document order, the places where
\* find_spec_link may find a spec file's URL (spec).  kind "none" is
\* Python's None.
\* DocPage.title and DocPage.content are text copied from the page and read
\* by nothing in the module; they are left out of the page record.
None == [kind |-> "none", len |-> 0, nav |-> {}, main |-> {}, spec |-> <<>>]
Text(n, nav, main, spec) ==
    [kind |-> "text", len |-> n, nav |-> nav, main |-> main, spec |-> spec]

\* A place of the page where a URL stands: the src of a script, the href of
\* a link or of an anchor, or anywhere else in the text ("text": plain text,
\* an attribute of another tag).  matches: one of the four spec-file
\* patterns is found in the value.
Elem(tag, matches, href) == [tag |-> tag, matches |-> matches, href |-> href]

\* Python truthiness of an Optional[str]: None and "" are both false.
Truthy(h) == h.kind = "text" /\ h.len > 0

\* ------------------------------------------------------------ the network
\* What requests.get or the browser answers: ok FALSE is an exception
\* (requests.RequestException, which raise_for_status raises for a 4xx/5xx
\* status; any Exception in the browser), ok TRUE carries the text.
Failed == [ok |-> FALSE, body |-> None]
Ok(body) == [ok |-> TRUE, body |-> body]

\* The page's server and the browser choose the text; the model draws the
\* text piecewise, each part when the code first reads it: its length when
\* it is fetched, its spec attribute when find_spec_link scans it, its
\* anchors when extract_doc_links scans it.  Each part is read once.
Body(n) == Text(n, {}, {}, <<>>)
WithSpec(html, spec) == [html EXCEPT !.spec = spec]
WithNav(html, nav) == [html EXCEPT !.nav = nav]

\* Lengths on both sides of the threshold, and at it.
BodyLens == {MinContentLen - 50, MinContentLen, MinContentLen + 1}

\* requests.get(url): a string that is no URL raises MissingSchema or
\* InvalidURL, both RequestException.
StaticAnswers(u) ==
    IF u.host = "" THEN {Failed}
    ELSE {Failed} \cup {Ok(Body(n)) : n \in BodyLens}

\* page.goto(url) then page.content().
RenderAnswers(u) ==
    IF u.host = "" THEN {Failed}
    ELSE {Failed} \cup {Ok(Body(n)) : n \in {MinContentLen - 50, MinContentLen + 1}}

\* What a page of the crawl holds for find_spec_link: nothing, or one
\* script whose src is the site's spec file.
SpecHrefs == {<<>>} \cup {<<Elem("script", TRUE, RelHref(p))>> : p \in SpecPaths}

\* The hrefs of a page's anchors.
CrawlHrefs ==
    {RelHref(p) : p \in PagePaths} \cup {AbsHref(e) : e \in ExtUrls} \cup {BadHref}

\* The anchors of a page of the crawl: any of the well-formed ones, or a
\* malformed one (whatever stands beside it, urljoin raises on it and
\* extract_doc_links returns nothing).
CrawlNavs == (SUBSET (CrawlHrefs \ {BadHref})) \cup {{BadHref}}

\* A spec file's text, by what the two parsers make of it: "" is the empty
\* text (or None), "json" parses as JSON, "yaml" parses as YAML only, "garbage" as
\* neither, and "deep" is JSON nested so deeply (e.g. 100000 opening
\* brackets) that json.loads raises RecursionError.
SpecTexts == {"json", "yaml", "garbage", "deep"}
SpecFailed == [ok |-> FALSE, text |-> ""]
SpecAnswers == {SpecFailed} \cup {[ok |-> TRUE, text |-> t] : t \in SpecTexts}

\* ------------------------------------------------------ fetching a page
\* fetch_html_dynamic: the page's content, None on any exception.
fetch_html_dynamic(r) == IF r.ok THEN r.body ELSE None

\* The bug of comparing with >= instead of >.
Sufficient_at_threshold(s) == s.ok /\ s.body.len >= MinContentLen

\* The static response is returned: no exception and len(resp.text) > 300.
Sufficient(s) == s.ok /\ s.body.len > MinContentLen

\* The bug of asking the browser whatever use_playwright says.
AsksBrowser_whatever_the_flag(u, playwright, s) == u # EmptyUrl /\ ~Sufficient(s)

\* The browser is asked (line 259 is reached): the static attempt was made,
\* did not return, and use_playwright is set.
AsksBrowser(u, playwright, s) == u # EmptyUrl /\ ~Sufficient(s) /\ playwright

\* fetch_documentation_html(url, use_playwright) given the static answer s
\* and the browser's answer r (read only when the browser is asked).
fetch_documentation_html(u, playwright, s, r) ==
    IF u = EmptyUrl THEN None
    ELSE IF Sufficient(s) THEN s.body
    ELSE IF AsksBrowser(u, playwright, s) THEN fetch_html_dynamic(r)
    ELSE None

\* ------------------------------------------------------ the spec file
\* The tag types in the order of the outer loop (line 128).
TagOrder == <<"script", "link", "a">>

\* The least position of a non-empty set of positions.
First(S) == CHOOSE i \in S : \A j \in S : i <= j

\* The positions of the tags of one type whose attribute matches a pattern
\* and joins to the base: a value on which urljoin raises is passed over
\* ("except Exception: continue").
Candidates(doc, tag) ==
    {i \in 1..Len(doc) :
        doc[i].tag = tag /\ doc[i].matches /\ ~urljoin_raises(doc[i].href)}

\* The bug of one loop over all tags in document order.
tag_scan_document_order(doc, base) ==
    LET all == UNION {Candidates(doc, TagOrder[k]) : k \in 1..Len(TagOrder)}
    IN  IF all = {} THEN EmptyUrl ELSE urljoin(base, doc[First(all)].href)

\* Lines 128-135: the first candidate, tag type by tag type, joined to the
\* base; None (the empty URL here) when the loops end without a return.
tag_scan(doc, base) ==
    LET types == {k \in 1..Len(TagOrder) : Candidates(doc, TagOrder[k]) # {}}
    IN  IF types = {} THEN EmptyUrl
        ELSE urljoin(base, doc[First(Candidates(doc, TagOrder[First(types)]))].href)

\* The places the regular expression of line 138 matches: an absolute
\* http(s) URL ending in a pattern, in a tag's attribute or anywhere else.
Literals(doc) ==
    {i \in 1..Len(doc) : doc[i].matches /\ doc[i].href.kind \in {"abs", "bad"}
                                        /\ doc[i].href.host # ""}

\* Lines 138-140: the first match in the whole text, as it stands.
full_text_scan(doc) ==
    IF Literals(doc) = {} THEN EmptyUrl
    ELSE [host |-> doc[First(Literals(doc))].href.host,
          path |-> doc[First(Literals(doc))].href.path]

\* find_spec_link: None (the empty URL here) for no page or no base, else
\* what the scan of the tags returns, else what the scan of the text finds.
find_spec_link(html, base) ==
    IF ~Truthy(html) \/ base = EmptyUrl THEN EmptyUrl
    ELSE IF tag_scan(html.spec, base) # EmptyUrl THEN tag_scan(html.spec, base)
    ELSE full_text_scan(html.spec)

\* retrieve_api_spec: the text, None ("" here) on any exception.
retrieve_api_spec(spec_url, a) ==
    IF spec_url = EmptyUrl THEN ""
    ELSE IF a.ok THEN a.text ELSE ""

\* json.loads(text): "ok", or the exception raised.
json_loads(t) ==
    IF t = "json" THEN "ok"
    ELSE IF t = "deep" THEN "RecursionError"
    ELSE "JSONDecodeError"

\* yaml.safe_load(text): "ok", or the exception raised.  JSON is YAML.
yaml_safe_load(t) == IF t \in {"json", "yaml"} THEN "ok" ELSE "YAMLError"

\* parse_api_spec: the parsed value ("dict"), None, or an exception that
\* neither except clause catches.
parse_api_spec(t) ==
    IF t = "" THEN [raises |-> FALSE, value |-> "None"]
    ELSE IF json_loads(t) = "ok" THEN [raises |-> FALSE, value |-> "dict"]
    ELSE IF json_loads(t) # "JSONDecodeError" THEN [raises |-> TRUE, value |-> "None"]
    ELSE IF yaml_safe_load(t) = "ok" THEN [raises |-> FALSE, value |-> "dict"]
    ELSE IF yaml_safe_load(t) = "YAMLError" THEN [raises |-> FALSE, value |-> "None"]
    ELSE [raises |-> TRUE, value |-> "None"]

\* ------------------------------------------------- the canonical JSON
\* What yaml.safe_load returns for a mapping: a dict whose keys and values
\* have the types YAML resolves them to.  "200:" is the int 200,
\* "description:" a str; "2020-01-01" is a datetime.date.  The dicts here are
\* one level deep and no two keys of one dict have the same text.
YamlKeys ==
    {[type |-> "int", v |-> "200"], [type |-> "str", v |-> "description"],
     [type |-> "str", v |-> "title"]}
YamlScalars ==
    {[type |-> "str", v |-> "ok"], [type |-> "int", v |-> "1"],
     [type |-> "date", v |-> "2020-01-01"]}
YamlDicts == UNION {[D -> YamlScalars] : D \in SUBSET YamlKeys}

\* A JSON text of one object: its members, each a key, which JSON has as a
\* string only, and a value.
\* json.dumps(spec_dict, indent=2): a key that is an int is written as the
\* string of its digits; a date is not serializable (TypeError).
json_dumps(d) ==
    IF \E k \in DOMAIN d : d[k].type = "date" THEN [raises |-> TRUE, text |-> {}]
    ELSE [raises |-> FALSE, text |-> {<<k.v, d[k]>> : k \in DOMAIN d}]

\* json.loads of such a text: the dict of its members, every key a str.
json_loads_object(text) ==
    [k \in {[type |-> "str", v |-> m[1]] : m \in text} |->
        (CHOOSE m \in text : m[1] = k.v)[2]]

\* reconstruct_definition(spec_dict, doc_type): None for a falsy spec_dict
\* and for a TypeError or ValueError of json.dumps, else the text.
reconstruct_definition(spec_dict, doc_type) ==
    IF DOMAIN spec_dict = {} THEN [none |-> TRUE, text |-> {}]
    ELSE IF json_dumps(spec_dict).raises THEN [none |-> TRUE, text |-> {}]
    ELSE [none |-> FALSE, text |-> json_dumps(spec_dict).text]

\* ------------------------------------------------------ links of a page
\* The anchors extract_doc_links resolves: those of the navigation
\* containers and of the first main-content container.
Anchors(html) == html.nav \cup html.main

\* extract_doc_links raises: urljoin is called unguarded on every anchor.
extract_doc_links_raises(html, base) ==
    Truthy(html) /\ base # EmptyUrl /\ \E h \in Anchors(html) : urljoin_raises(h)

\* The bug of leaving the test of the host out of the second loop.
extract_doc_links_main_unfiltered(html, base) ==
    IF ~Truthy(html) \/ base = EmptyUrl THEN {}
    ELSE {u \in {urljoin(base, h) : h \in {a \in html.nav : ~urljoin_raises(a)}} :
             netloc(u) = netloc(base)}
         \cup {urljoin(base, h) : h \in {a \in html.main : ~urljoin_raises(a)}}

\* The bug of leaving the test of the host out of both loops.
extract_doc_links_any_host(html, base) ==
    IF ~Truthy(html) \/ base = EmptyUrl THEN {}
    ELSE {urljoin(base, h) : h \in {a \in Anchors(html) : ~urljoin_raises(a)}}

\* extract_doc_links: the resolved anchors on the base's host.
extract_doc_links(html, base) ==
    IF ~Truthy(html) \/ base = EmptyUrl THEN {}
    ELSE LET resolved == {urljoin(base, h) : h \in {a \in Anchors(html) : ~urljoin_raises(a)}}
         IN  {u \in resolved : netloc(u) = netloc(base)}

\* ------------------------------------------------ the documentation type
\* A page as detect_documentation_type reads it: whether there is any text,
\* and whether BeautifulSoup finds each of the five fingerprints in it.
\*   swagger_ui_script  a script whose src matches swagger-ui
\*   redoc_script       a script whose src matches redoc
\*   swagger_div        an element with id swagger-ui
\*   postman_link       an anchor whose href matches getpostman
\*   postman_img        an img whose alt matches Run in Postman
Fingerprints ==
    {"swagger_ui_script", "redoc_script", "swagger_div", "postman_link", "postman_img"}
NoHtml == [text |-> FALSE, has |-> {}]
TypedPages == {NoHtml} \cup [text : {TRUE}, has : SUBSET Fingerprints]

\* DocTypeResult(doc_type, confidence), the confidence in tenths.
DocTypeResult(doc_type, tenths) == [doc_type |-> doc_type, confidence |-> tenths]

\* The bug of testing the Postman fingerprints before the Swagger ones.
detect_postman_first(h) ==
    IF ~h.text THEN DocTypeResult("unknown", 0)
    ELSE IF "postman_link" \in h.has THEN DocTypeResult("postman", 7)
    ELSE IF "postman_img" \in h.has THEN DocTypeResult("postman", 6)
    ELSE IF "swagger_ui_script" \in h.has \/ "redoc_script" \in h.has
         THEN DocTypeResult("openapi", 9)
    ELSE IF "swagger_div" \in h.has THEN DocTypeResult("swagger", 8)
    ELSE DocTypeResult("unknown", 0)

\* detect_documentation_type(html_content)
detect_documentation_type(h) ==
    IF ~h.text THEN DocTypeResult("unknown", 0)
    ELSE IF "swagger_ui_script" \in h.has \/ "redoc_script" \in h.has
         THEN DocTypeResult("openapi", 9)
    ELSE IF "swagger_div" \in h.has THEN DocTypeResult("swagger", 8)
    ELSE IF "postman_link" \in h.has THEN DocTypeResult("postman", 7)
    ELSE IF "postman_img" \in h.has THEN DocTypeResult("postman", 6)
    ELSE DocTypeResult("unknown", 0)

\* ------------------------------------------------------------- the state
VARIABLES
    pc,               \* where parse_api_documentation stands
    url,              \* its argument: the documentation homepage
    use_playwright,   \* its argument: fall back to the browser
    visited_urls,     \* set of URLs
    pages_to_visit,   \* set of URLs
    parsed_pages,     \* list of DocPage
    current_url,      \* the URL popped in this iteration
    html_content,     \* what fetch_documentation_html returned for it
    outcome,          \* "running", "returned" (the list), or the exception that left it
    gets,             \* history: static requests sent, per URL
    renders,          \* history: browser requests sent, per URL
    insufficient,     \* history: URLs whose static attempt did not return
    fetch_failed,     \* history: URLs for which nothing usable was fetched
    spec_gets,        \* history: spec retrievals sent, per spec URL
    linked,           \* history: URLs on the root's host that a fetched page links to
    relinked,         \* history: some URL was linked to by a second fetched page
    popped,           \* history: the URLs pop() has returned
    queue,            \* history: pages_to_visit in the order its URLs were added
    offsite,          \* history: the page scanned in the iteration just ended had
                      \*          an anchor to another host
    fn,               \* SpecFn: the function applied
    arg,              \* SpecFn: its input
    ret               \* SpecFn: its result

crawl_vars ==
    <<pc, url, use_playwright, visited_urls, pages_to_visit, parsed_pages,
      current_url, html_content, outcome, gets, renders, insufficient, fetch_failed,
      spec_gets, linked, relinked, popped, queue, offsite>>
fn_vars == <<fn, arg, ret>>
vars == <<crawl_vars, fn_vars>>

\* DocPage(url, title, content, spec) without the two text fields.
DocPage(u, spec) == [url |-> u, spec |-> spec]

\* The URLs of the pages of a list.
UrlsOf(pages) == {pages[i].url : i \in 1..Len(pages)}

\* parse_doc_page(url, html_content) given the spec server's answer a (read
\* only when the page has a spec link): the page, or the exception of
\* parse_api_spec, which nothing on the way up catches.
parse_doc_page(u, html, a) ==
    LET spec_url == find_spec_link(html, u)
        spec_text == retrieve_api_spec(spec_url, a)
        parsed == parse_api_spec(spec_text)
    IN  IF spec_url = EmptyUrl \/ spec_text = ""
        THEN [raises |-> FALSE, page |-> DocPage(u, "None")]
        ELSE [raises |-> parsed.raises, page |-> DocPage(u, parsed.value)]

\* ------------------------------------------------------- the crawl loop
\* The bug of leaving the add out.
MarkVisited_forgets(visited, u) == visited

\* visited_urls.add(current_url)
MarkVisited(visited, u) == visited \cup {u}

\* pages_to_visit after pop() returned u.
AfterPop(frontier, u) == frontier \ {u}

\* The bug of assigning the new links instead of adding them.
Enqueue_overwrites(frontier, new_links, visited) == new_links \ visited

\* The bug of leaving the difference with visited_urls out.
Enqueue_all(frontier, new_links, visited) == frontier \cup new_links

\* pages_to_visit.update(new_links - visited_urls)
Enqueue(frontier, new_links, visited) == frontier \cup (new_links \ visited)

CrawlInit ==
    /\ pc = "start"
    /\ url \in {EmptyUrl, InvalidUrl, RootUrl}
    /\ use_playwright \in BOOLEAN
    /\ visited_urls = {}
    /\ pages_to_visit = {}
    /\ parsed_pages = <<>>
    /\ current_url = EmptyUrl
    /\ html_content = None
    /\ outcome = "running"
    /\ gets = [u \in AllUrls |-> 0]
    /\ renders = [u \in AllUrls |-> 0]
    /\ insufficient = {}
    /\ fetch_failed = {}
    /\ spec_gets = [u \in SpecUrls |-> 0]
    /\ linked = {}
    /\ relinked = FALSE
    /\ popped = {}
    /\ queue = <<>>
    /\ offsite = FALSE
    /\ fn = "none"
    /\ arg = [none |-> TRUE]
    /\ ret = [called |-> FALSE]

\* The bug of leaving the guard out.
NotUrl_never(u) == FALSE

\* "if not url": the empty string (or None).
NotUrl(u) == u = EmptyUrl

\* Lines 310-315: "if not url: return []", else the three collections.
Start ==
    /\ pc = "start"
    /\ IF NotUrl(url)
       THEN /\ pc' = "done"
            /\ outcome' = "returned"
            /\ UNCHANGED <<pages_to_visit, queue>>
       ELSE /\ pc' = "loop"
            /\ pages_to_visit' = {url}
            /\ queue' = <<url>>
            /\ UNCHANGED outcome
    /\ UNCHANGED <<url, use_playwright, visited_urls, parsed_pages, current_url,
                   html_content, gets, renders, insufficient, fetch_failed, spec_gets,
                   linked, relinked, popped, offsite>>
    /\ UNCHANGED fn_vars

\* Lines 317-323: pop any element of the set; skip it if visited, else mark
\* it visited and go on to fetch it.
Pop ==
    /\ pc = "loop"
    /\ pages_to_visit # {}
    /\ \E u \in pages_to_visit :
        /\ pages_to_visit' = AfterPop(pages_to_visit, u)
        /\ popped' = popped \cup {u}
        /\ queue' = SelectSeq(queue, LAMBDA q : q # u)
        /\ offsite' = FALSE
        /\ IF u \in visited_urls
           THEN UNCHANGED <<pc, visited_urls, current_url>>
           ELSE /\ visited_urls' = MarkVisited(visited_urls, u)
                /\ current_url' = u
                /\ pc' = "fetch"
    /\ UNCHANGED <<url, use_playwright, parsed_pages, html_content, outcome, gets,
                   renders, insufficient, fetch_failed, spec_gets, linked, relinked>>
    /\ UNCHANGED fn_vars

\* The link graph as the site has it, read off the page without the code:
\* the targets, on the root's host, of the anchors of the page at base.
LinkTargets(html, base, root) ==
    {t \in PageUrls \cup ExtUrls :
        /\ t.host = root.host
        /\ \E h \in Anchors(html) :
            \/ h.kind = "abs" /\ h.host = t.host /\ h.path = t.path
            \/ h.kind = "rel" /\ base.host = t.host /\ h.path = t.path}

\* The anchors of a page that point away from the root's host.
OffsiteAnchors(html, root) ==
    {h \in Anchors(html) : h.kind = "abs" /\ h.host # root.host}

\* URLs in the order in which their anchors stand in the page; the pages of
\* the model list their anchors by ascending path.
RECURSIVE InDocumentOrder(_)
InDocumentOrder(S) ==
    IF S = {} THEN <<>>
    ELSE LET u == CHOOSE x \in S : \A y \in S : x.path <= y.path
         IN  <<u>> \o InDocumentOrder(S \ {u})

\* The bug of leaving the check of the fetch's result out.
Fetched_always(html) == TRUE

\* "if not html_content: ... continue" is not taken.
Fetched(html) == Truthy(html)

\* Lines 325-328: fetch_documentation_html(current_url, use_playwright);
\* nothing usable: next iteration.
Fetch ==
    /\ pc = "fetch"
    /\ \E s \in StaticAnswers(current_url) :
       \E r \in (IF AsksBrowser(current_url, use_playwright, s)
                 THEN RenderAnswers(current_url) ELSE {Failed}) :
        LET html == fetch_documentation_html(current_url, use_playwright, s, r) IN
        /\ gets' = IF current_url = EmptyUrl THEN gets
                   ELSE [gets EXCEPT ![current_url] = @ + 1]
        /\ renders' = IF AsksBrowser(current_url, use_playwright, s)
                      THEN [renders EXCEPT ![current_url] = @ + 1]
                      ELSE renders
        /\ insufficient' = IF Sufficient(s) THEN insufficient
                           ELSE insufficient \cup {current_url}
        /\ fetch_failed' = IF Truthy(html) THEN fetch_failed
                           ELSE fetch_failed \cup {current_url}
        /\ IF Fetched(html)
           THEN /\ html_content' = html
                /\ pc' = "parse"
                /\ UNCHANGED current_url
           ELSE /\ html_content' = None
                /\ current_url' = EmptyUrl
                /\ pc' = "loop"
    /\ UNCHANGED <<url, use_playwright, visited_urls, pages_to_visit, parsed_pages,
                   outcome, spec_gets, linked, relinked, popped, queue, offsite>>
    /\ UNCHANGED fn_vars

\* Lines 330-332: parse_doc_page(current_url, html_content) and append.  An
\* exception leaves parse_api_documentation: no list is returned.
ParsePage ==
    /\ pc = "parse"
    /\ \E sp \in SpecHrefs :
       LET html == WithSpec(html_content, sp)
           spec_url == find_spec_link(html, current_url)
       IN
       \E a \in (IF spec_url = EmptyUrl THEN {SpecFailed} ELSE SpecAnswers) :
        LET res == parse_doc_page(current_url, html, a) IN
        /\ spec_gets' = IF spec_url = EmptyUrl THEN spec_gets
                        ELSE [spec_gets EXCEPT ![spec_url] = @ + 1]
        /\ IF res.raises
           THEN /\ pc' = "done"
                /\ outcome' = "RecursionError"
                /\ UNCHANGED parsed_pages
           ELSE /\ pc' = "extract"
                /\ parsed_pages' = Append(parsed_pages, res.page)
                /\ UNCHANGED outcome
    /\ UNCHANGED <<url, use_playwright, visited_urls, pages_to_visit, current_url,
                   html_content, gets, renders, insufficient, fetch_failed, linked,
                   relinked, popped, queue, offsite>>
    /\ UNCHANGED fn_vars

\* Lines 334-337: extract_doc_links(html_content, current_url) and the
\* update of the set.  current_url and html_content are assigned again
\* before they are next read; the model forgets them here.
Extract ==
    /\ pc = "extract"
    /\ \E nav \in CrawlNavs :
       LET html == WithNav(html_content, nav) IN
       IF extract_doc_links_raises(html, current_url)
       THEN /\ pc' = "done"
            /\ outcome' = "ValueError"
            /\ UNCHANGED <<pages_to_visit, linked, relinked, current_url, html_content,
                           queue, offsite>>
       ELSE LET new_links == extract_doc_links(html, current_url) IN
            /\ pages_to_visit' = Enqueue(pages_to_visit, new_links, visited_urls)
            /\ linked' = linked \cup LinkTargets(html, current_url, url)
            /\ relinked' = (relinked \/ LinkTargets(html, current_url, url) \cap linked # {})
            /\ queue' = queue \o InDocumentOrder(
                                Enqueue(pages_to_visit, new_links, visited_urls)
                                    \ pages_to_visit)
            /\ offsite' = (OffsiteAnchors(html, url) # {})
            /\ current_url' = EmptyUrl
            /\ html_content' = None
            /\ pc' = "loop"
            /\ UNCHANGED outcome
    /\ UNCHANGED <<url, use_playwright, visited_urls, parsed_pages, gets, renders,
                   insufficient, fetch_failed, spec_gets, popped>>
    /\ UNCHANGED fn_vars

\* Lines 317 and 339: the set is empty, "return parsed_pages".
Return ==
    /\ pc = "loop"
    /\ pages_to_visit = {}
    /\ pc' = "done"
    /\ outcome' = "returned"
    /\ offsite' = FALSE
    /\ UNCHANGED <<url, use_playwright, visited_urls, pages_to_visit, parsed_pages,
                   current_url, html_content, gets, renders, insufficient,
                   fetch_failed, spec_gets, linked, relinked, popped, queue>>
    /\ UNCHANGED fn_vars

\* ------------------------------------------- the functions on their own
\* The inputs of fetch_documentation_html: the URL, the flag, and what the
\* page's server and the browser answer.  The browser's page differs from
\* the server's (it carries the anchors the scripts built).
FetchStatic == {Failed} \cup {Ok(Body(n)) : n \in {0} \cup BodyLens}
FetchRendered ==
    {Failed} \cup {Ok(WithNav(Body(n), {RelHref(1)})) :
                       n \in {MinContentLen - 50, MinContentLen + 1}}
FetchInputs ==
    [url : {EmptyUrl, RootUrl}, use_playwright : BOOLEAN,
     static : FetchStatic, rendered : FetchRendered]

\* The inputs of find_spec_link: no page or a page of up to MaxTags places,
\* each the src of a script, the href of a link or of an anchor, or a piece
\* of text, holding a value of one of five kinds: "other" matches no
\* pattern; the rest match one and are relative, absolute, or malformed
\* ("bad" as "//[bad/openapi.json", "bad_abs" as "http://[bad/openapi.json").
\* The value at place i has path i, so that the place a result comes from
\* can be read off it.
ValueKinds == {"other", "rel", "abs", "bad", "bad_abs"}
HrefAt(i, v) ==
    CASE v = "abs" -> AbsHref([host |-> OtherHost, path |-> i])
      [] v = "bad" -> BadHref
      [] v = "bad_abs" -> BadAbsHref(i)
      [] OTHER -> RelHref(i)
SpecDoc(shape) ==
    [i \in 1..Len(shape) |-> Elem(shape[i][1], shape[i][2] # "other", HrefAt(i, shape[i][2]))]
DocShapes ==
    UNION {[1..n -> {"script", "link", "a", "text"} \X ValueKinds] : n \in 0..MaxTags}
FindInputs ==
    [html : {None} \cup {Text(MinContentLen + 1, {}, {}, SpecDoc(sh)) : sh \in DocShapes},
     base : {EmptyUrl, RootUrl}]

\* The inputs of extract_doc_links: a page whose navigation containers and
\* main-content container hold anchors to the base's host and to another
\* one, relative, absolute and malformed, and a base on either host.
ExtractHrefs ==
    {RelHref(2), AbsHref([host |-> DocsHost, path |-> 1]),
     AbsHref([host |-> OtherHost, path |-> 1]), BadHref}
ExtractInputs ==
    [html : {None} \cup {Text(MinContentLen + 1, nav, main, <<>>) :
                             nav \in SUBSET ExtractHrefs, main \in SUBSET ExtractHrefs},
     base : {EmptyUrl, RootUrl, [host |-> OtherHost, path |-> 1]}]

\* The inputs of retrieve_api_spec and parse_api_spec as parse_doc_page
\* chains them (lines 292-295): the spec URL and the server's answer, a
\* failure, an empty body or one of the texts.
ResolveInputs ==
    [spec_url : {EmptyUrl} \cup {[host |-> DocsHost, path |-> p] : p \in SpecPaths},
     answer : SpecAnswers \cup {[ok |-> TRUE, text |-> ""]}]

\* The inputs of reconstruct_definition: the parse of a YAML spec.
ReconstructInputs == [spec_dict : YamlDicts, doc_type : {"openapi"}]

FnInit ==
    /\ pc = "fn"
    /\ url = EmptyUrl
    /\ use_playwright = FALSE
    /\ visited_urls = {}
    /\ pages_to_visit = {}
    /\ parsed_pages = <<>>
    /\ current_url = EmptyUrl
    /\ html_content = None
    /\ outcome = "running"
    /\ gets = [u \in AllUrls |-> 0]
    /\ renders = [u \in AllUrls |-> 0]
    /\ insufficient = {}
    /\ fetch_failed = {}
    /\ spec_gets = [u \in SpecUrls |-> 0]
    /\ linked = {}
    /\ relinked = FALSE
    /\ popped = {}
    /\ queue = <<>>
    /\ offsite = FALSE
    /\ ret = [called |-> FALSE]
    /\ \/ fn = "detect_documentation_type" /\ arg \in TypedPages
       \/ fn = "fetch_documentation_html" /\ arg \in FetchInputs
       \/ fn = "find_spec_link" /\ arg \in FindInputs
       \/ fn = "extract_doc_links" /\ arg \in ExtractInputs
       \/ fn = "parse_api_spec" /\ arg \in ResolveInputs
       \/ fn = "reconstruct_definition" /\ arg \in ReconstructInputs

CallDetect ==
    /\ fn = "detect_documentation_type"
    /\ ~ret.called
    /\ ret' = [called |-> TRUE, value |-> detect_documentation_type(arg)]
    /\ UNCHANGED <<fn, arg>>
    /\ UNCHANGED crawl_vars

CallFetch ==
    /\ fn = "fetch_documentation_html"
    /\ ~ret.called
    /\ ret' = [called |-> TRUE,
               value |-> fetch_documentation_html(arg.url, arg.use_playwright,
                                                  arg.static, arg.rendered)]
    /\ UNCHANGED <<fn, arg>>
    /\ UNCHANGED crawl_vars

CallFindSpecLink ==
    /\ fn = "find_spec_link"
    /\ ~ret.called
    /\ ret' = [called |-> TRUE, value |-> find_spec_link(arg.html, arg.base)]
    /\ UNCHANGED <<fn, arg>>
    /\ UNCHANGED crawl_vars

\* extract_doc_links returns its set, or urljoin's ValueError leaves it.
CallExtract ==
    /\ fn = "extract_doc_links"
    /\ ~ret.called
    /\ ret' = IF extract_doc_links_raises(arg.html, arg.base)
              THEN [called |-> TRUE, raises |-> TRUE, value |-> {}]
              ELSE [called |-> TRUE, raises |-> FALSE,
                    value |-> extract_doc_links(arg.html, arg.base)]
    /\ UNCHANGED <<fn, arg>>
    /\ UNCHANGED crawl_vars

\* Lines 293-295: parse_api_spec(retrieve_api_spec(spec_url)), the parse
\* only "if spec_text"; the value, or the exception that leaves the parser.
CallParseSpec ==
    /\ fn = "parse_api_spec"
    /\ ~ret.called
    /\ LET spec_text == retrieve_api_spec(arg.spec_url, arg.answer)
           parsed == parse_api_spec(spec_text)
       IN  ret' = IF spec_text = ""
                  THEN [called |-> TRUE, text |-> "", raises |-> FALSE, value |-> "None"]
                  ELSE [called |-> TRUE, text |-> spec_text, raises |-> parsed.raises,
                        value |-> parsed.value]
    /\ UNCHANGED <<fn, arg>>
    /\ UNCHANGED crawl_vars

\* reconstruct_definition, and its text, if any, parsed again as JSON.
CallReconstruct ==
    /\ fn = "reconstruct_definition"
    /\ ~ret.called
    /\ LET canonical == reconstruct_definition(arg.spec_dict, arg.doc_type)
       IN  ret' = [called |-> TRUE, canonical |-> canonical,
                   reparsed |-> json_loads_object(canonical.text)]
    /\ UNCHANGED <<fn, arg>>
    /\ UNCHANGED crawl_vars

FnNext ==
    \/ CallDetect
    \/ CallFetch
    \/ CallFindSpecLink
    \/ CallExtract
    \/ CallParseSpec
    \/ CallReconstruct
SpecFn == FnInit /\ [][FnNext]_vars

\* ---------------------------------------------------------- the crawl
Init == CrawlInit
Next == Start \/ Pop \/ Fetch \/ ParsePage \/ Extract \/ Return
Spec == Init /\ [][Next]_vars
\* The interpreter runs the function to its end: a step that can be taken is.
FairSpec == Spec /\ WF_vars(Next)

\* ================================================================ claims
\* The number of pages of the list with URL u.
PageCount(u) == Cardinality({i \in 1..Len(parsed_pages) : parsed_pages[i].url = u})

\* The URLs reachable from the root over the links of the pages fetched:
\* the root, and every URL on its host that a fetched page links to (a page
\* is fetched only if it is the root or a fetched page linked to it).
Reachable == {url} \cup linked

\* The run has ended with an exception.
Raised == outcome \notin {"running", "returned"}

\* C1: in a run of the crawl no URL is fetched or processed more than once
\* (at most one static request, one browser request and one page per URL),
\* also when two different pages link to it.
C1_FetchedAtMostOnce ==
    \A u \in AllUrls : gets[u] <= 1 /\ renders[u] <= 1 /\ PageCount(u) <= 1

\* C1's case: the run returned, two different pages linked to one URL, and
\* every visited URL was requested exactly once.
C1_Witness ==
    /\ outcome = "returned"
    /\ relinked
    /\ Cardinality(visited_urls) >= 2
    /\ \A u \in visited_urls : gets[u] = 1

\* C2: the list the crawl returns holds exactly one page for each fetchable
\* URL reachable from the root and no other page, whatever the order of the
\* pops; when every page is fetchable, exactly one page per reachable URL.
C2_ExactlyTheReachable ==
    (outcome = "returned" /\ ~NotUrl(url)) =>
        /\ UrlsOf(parsed_pages) = Reachable \ fetch_failed
        /\ Len(parsed_pages) = Cardinality(Reachable \ fetch_failed)
        /\ (fetch_failed = {} => UrlsOf(parsed_pages) = Reachable)

\* C2's case: every page of the site was reachable and fetched, over links
\* that close a cycle or meet, and the list holds them all.
C2_Witness ==
    /\ outcome = "returned"
    /\ fetch_failed = {}
    /\ relinked
    /\ Reachable = PageUrls
    /\ Len(parsed_pages) = NumPaths

\* C3: the crawl always ends by returning its list, with the set of pages
\* to visit empty.
C3_EndsByReturning ==
    pc = "done" => (outcome = "returned" /\ (NotUrl(url) \/ pages_to_visit = {}))

\* The loop itself ends (checked under FairSpec): it does not run forever.
LoopEnds == <>(pc = "done")

\* C4: a URL whose fetch fails gets no page, and the step of the failed
\* fetch appends nothing, enqueues nothing and goes on with the loop; with
\* the root fetched and every page it links to failing, the list returned
\* is the root's page alone.
C4_FailedFetchIsSkipped ==
    /\ [](\A u \in fetch_failed : PageCount(u) = 0)
    /\ []((outcome = "returned" /\ url \notin fetch_failed /\ ~NotUrl(url)
            /\ fetch_failed = Reachable \ {url})
          => UrlsOf(parsed_pages) = {url} /\ Len(parsed_pages) = 1)
    /\ [][(pc = "fetch" /\ current_url \in fetch_failed')
          => /\ parsed_pages' = parsed_pages
             /\ pages_to_visit' = pages_to_visit
             /\ linked' = linked
             /\ pc' = "loop"
             /\ outcome' = "running"]_vars

\* C4's case: A links to B, B's fetch failed, the list returned is A's page.
C4_Witness ==
    /\ outcome = "returned"
    /\ fetch_failed # {}
    /\ fetch_failed = Reachable \ {url}
    /\ UrlsOf(parsed_pages) = {url}

\* What the browser's answer comes to: its page, or nothing.
RenderedResult(r) == IF r.ok THEN r.body ELSE None

\* C5: for a URL to fetch, a static success with a body longer than 300
\* characters is the result; otherwise the result is the browser's if
\* rendering is allowed and nothing if not; a static body of 300 characters
\* or fewer is never the result.
C5_FetchFallsBack ==
    (fn = "fetch_documentation_html" /\ ret.called /\ arg.url # EmptyUrl) =>
        LET s == arg.static
            long == s.ok /\ s.body.len > 300
        IN  /\ long => ret.value = s.body
            /\ (~long /\ arg.use_playwright) => ret.value = RenderedResult(arg.rendered)
            /\ (~long /\ ~arg.use_playwright) => ret.value = None
            /\ (s.ok /\ s.body.len <= 300) => ret.value # s.body

\* C5's case: a 250-character static body with rendering allowed gave the
\* browser's page.
C5_Witness ==
    /\ fn = "fetch_documentation_html"
    /\ ret.called
    /\ arg.url # EmptyUrl
    /\ arg.use_playwright
    /\ arg.static.ok /\ arg.static.body.len = 250
    /\ arg.rendered.ok
    /\ ret.value = arg.rendered.body

\* C6: a spec link whose retrieval or parsing fails never ends the crawl:
\* no run ends with the exception of the spec's parser, and at the end
\* every page that was fetched is in the list, whatever became of its spec.
C6_SpecFailureDoesNotAbort ==
    /\ outcome # "RecursionError"
    /\ pc = "done" => \A u \in visited_urls \ fetch_failed : PageCount(u) = 1

\* C7: when the root's static fetch gave nothing usable in a crawl started
\* without rendering, the crawl is run a second time with rendering: by its
\* end the root has been requested twice, once by the browser.
C7_RetriedOnceWithRendering ==
    (pc = "done" /\ ~use_playwright /\ ~NotUrl(url) /\ url \in insufficient) =>
        (gets[url] = 2 /\ renders[url] = 1)

\* C8: each spec URL is retrieved at most once in a run.
C8_SpecRetrievedOnce == \A u \in SpecUrls : spec_gets[u] <= 1

\* C9 as claimed: an empty or invalid root URL ends the crawl with an error.
C9_BadRootIsFatal ==
    (pc = "done" /\ url \in {EmptyUrl, InvalidUrl}) => Raised

\* C9 as amended: an empty or invalid root URL is no error; the crawl
\* returns the empty list, for the empty URL without visiting or requesting
\* anything, for an invalid one after its one static request failed.
C9_BadRootReturnsEmpty ==
    (pc = "done" /\ url \in {EmptyUrl, InvalidUrl}) =>
        /\ outcome = "returned"
        /\ parsed_pages = <<>>
        /\ \A u \in AllUrls : gets[u] = (IF u = InvalidUrl /\ url = u THEN 1 ELSE 0)
        /\ url = EmptyUrl => visited_urls = {}

\* C9's case: the crawl of the empty URL has ended.
C9_Witness == pc = "done" /\ url = EmptyUrl /\ outcome = "returned"

\* C10: the type is that of the first rule that matches, in the order
\* script (swagger-ui or redoc) -> openapi 0.9, element id -> swagger 0.8,
\* Postman link -> postman 0.7, Postman image -> postman 0.6, none ->
\* unknown 0.0; no text at all is unknown 0.0.
C10_FirstMatchWins ==
    (fn = "detect_documentation_type" /\ ret.called) =>
        LET has(f) == f \in arg.has
            r1 == has("swagger_ui_script") \/ has("redoc_script")
            r2 == has("swagger_div")
            r3 == has("postman_link")
            r4 == has("postman_img")
            v == ret.value
        IN  /\ ~arg.text => v = [doc_type |-> "unknown", confidence |-> 0]
            /\ (arg.text /\ r1) => v = [doc_type |-> "openapi", confidence |-> 9]
            /\ (arg.text /\ ~r1 /\ r2) => v = [doc_type |-> "swagger", confidence |-> 8]
            /\ (arg.text /\ ~r1 /\ ~r2 /\ r3) => v = [doc_type |-> "postman", confidence |-> 7]
            /\ (arg.text /\ ~r1 /\ ~r2 /\ ~r3 /\ r4)
                   => v = [doc_type |-> "postman", confidence |-> 6]
            /\ (arg.text /\ ~r1 /\ ~r2 /\ ~r3 /\ ~r4)
                   => v = [doc_type |-> "unknown", confidence |-> 0]

\* C10's case: a page with a swagger-ui script and a Run in Postman image
\* was typed openapi.
C10_Witness ==
    /\ fn = "detect_documentation_type"
    /\ ret.called
    /\ {"swagger_ui_script", "postman_img"} \subseteq arg.has
    /\ ret.value.doc_type = "openapi"

\* C11 as claimed: find_spec_link returns the first attribute value that
\* matches a pattern (scripts, then links, then anchors, document order
\* within each) joined to the base; the scan of the text is used only when
\* no such attribute matches; the result is none only when neither matches.
C11_FirstMatchingAttribute ==
    (fn = "find_spec_link" /\ ret.called) =>
        LET doc == arg.html.spec
            matching(tag) == {i \in 1..Len(doc) : doc[i].tag = tag /\ doc[i].matches}
            literals == {i \in 1..Len(doc) : doc[i].tag = "text" /\ doc[i].matches
                                                /\ doc[i].href.host # ""}
            least(S) == CHOOSE i \in S : \A j \in S : i <= j
            first == IF matching("script") # {} THEN least(matching("script"))
                     ELSE IF matching("link") # {} THEN least(matching("link"))
                     ELSE least(matching("a"))
            any == matching("script") \cup matching("link") \cup matching("a") # {}
        IN  /\ any => /\ doc[first].href.kind \in {"rel", "abs"}
                      /\ ret.value = urljoin(arg.base, doc[first].href)
            /\ (~any /\ literals # {}) =>
                   ret.value = [host |-> doc[least(literals)].href.host,
                                path |-> doc[least(literals)].href.path]
            /\ ret.value = EmptyUrl <=> (~any /\ literals = {})

\* C11 as amended: for a page and a base that are not empty, the result is
\* the first matching attribute value that joins to the base (scripts, then
\* links, then anchors, document order within each), joined; when there is
\* none, the first absolute URL literal ending in a pattern anywhere in the
\* page's text, tag attributes included, as it stands; none exactly when
\* there is neither.  Without a page or a base the result is none.
C11_FirstResolvableAttribute ==
    (fn = "find_spec_link" /\ ret.called) =>
        LET doc == arg.html.spec
            joins(tag) == {i \in 1..Len(doc) : doc[i].tag = tag /\ doc[i].matches
                                                  /\ doc[i].href.kind \in {"rel", "abs"}}
            literals == {i \in 1..Len(doc) : doc[i].matches /\ doc[i].href.host # ""}
            least(S) == CHOOSE i \in S : \A j \in S : i <= j
            first == IF joins("script") # {} THEN least(joins("script"))
                     ELSE IF joins("link") # {} THEN least(joins("link"))
                     ELSE least(joins("a"))
            any == joins("script") \cup joins("link") \cup joins("a") # {}
        IN  IF arg.html = None \/ arg.base = EmptyUrl THEN ret.value = EmptyUrl
            ELSE /\ any => ret.value = [host |-> IF doc[first].href.kind = "abs"
                                                   THEN OtherHost ELSE arg.base.host,
                                        path |-> first]
                 /\ (~any /\ literals # {}) =>
                        ret.value = [host |-> doc[least(literals)].href.host,
                                     path |-> least(literals)]
                 /\ ret.value = EmptyUrl <=> (~any /\ literals = {})

\* C11's case: an anchor that matches stands before a script that matches,
\* and the script's src, joined to the base, is the result.
C11_Witness ==
    /\ fn = "find_spec_link"
    /\ ret.called
    /\ arg.base = RootUrl
    /\ Len(arg.html.spec) = 2
    /\ arg.html.spec[1].tag = "a" /\ arg.html.spec[1].matches
    /\ arg.html.spec[1].href.kind = "rel"
    /\ arg.html.spec[2].tag = "script" /\ arg.html.spec[2].matches
    /\ arg.html.spec[2].href.kind = "rel"
    /\ ret.value = [host |-> DocsHost, path |-> 2]

\* C12: every URL of the set extract_doc_links returns has the host of the
\* base, and an anchor to another host is not in it, be the anchor in a
\* navigation container or in the main-content container.
C12_SameHostOnly ==
    (fn = "extract_doc_links" /\ ret.called /\ ~ret.raises) =>
        /\ \A u \in ret.value : u.host = arg.base.host
        /\ \A h \in arg.html.nav \cup arg.html.main :
               (h.kind = "abs" /\ h.host # arg.base.host)
                   => [host |-> h.host, path |-> h.path] \notin ret.value

\* C12's case: both containers hold an anchor to another host, the main
\* one also anchors to the base's host, and only these are returned.
C12_Witness ==
    /\ fn = "extract_doc_links"
    /\ ret.called
    /\ arg.base = RootUrl
    /\ AbsHref([host |-> OtherHost, path |-> 1]) \in arg.html.nav \cap arg.html.main
    /\ RelHref(2) \in arg.html.main
    /\ ret.value = {[host |-> DocsHost, path |-> 2]}

\* C13: a retrieved text that is JSON parses (as JSON); one that is not
\* JSON but is YAML parses as YAML; one that is neither gives none and no
\* exception; a transport failure gives none and no exception.
C13_JsonThenYamlElseNone ==
    (fn = "parse_api_spec" /\ ret.called /\ arg.spec_url # EmptyUrl) =>
        LET t == arg.answer.text
            is_json == t = "json"
            is_yaml == t \in {"json", "yaml"}
        IN  /\ ~ret.raises
            /\ ~arg.answer.ok => ret.value = "None"
            /\ (arg.answer.ok /\ is_json) => ret.value = "dict"
            /\ (arg.answer.ok /\ ~is_json /\ is_yaml) => ret.value = "dict"
            /\ (arg.answer.ok /\ ~is_json /\ ~is_yaml) => ret.value = "None"

\* C14: the canonical JSON made of the parse of a YAML spec, parsed again
\* as JSON, is the parse of the YAML: the same keys with the same values.
C14_RoundTrip ==
    (fn = "reconstruct_definition" /\ ret.called /\ ~ret.canonical.none) =>
        /\ DOMAIN ret.reparsed = DOMAIN arg.spec_dict
        /\ \A k \in DOMAIN arg.spec_dict : ret.reparsed[k] = arg.spec_dict[k]

\* C15: every URL ever popped is in visited_urls, and a URL is in
\* visited_urls before it is requested: the URL being fetched or processed
\* is in it, every URL requested is in it, and a URL whose fetch failed is
\* in it, is not in pages_to_visit again and is not requested again.
C15_VisitedHoldsThePopped ==
    /\ popped \subseteq visited_urls
    /\ pc \in {"fetch", "parse", "extract"} => current_url \in visited_urls
    /\ \A u \in AllUrls : (gets[u] > 0 \/ renders[u] > 0) => u \in visited_urls
    /\ \A u \in fetch_failed :
           u \in visited_urls /\ u \notin pages_to_visit /\ gets[u] <= 1

\* C15's case: the fetch of a URL that pages link to failed, the crawl went
\* on over other pages and returned, and the URL was requested once.
C15_Witness ==
    /\ outcome = "returned"
    /\ Cardinality(visited_urls) >= 3
    /\ relinked
    /\ \E u \in fetch_failed \cap linked : gets[u] = 1 /\ u \in visited_urls

\* C16: per URL at most one static request and at most one browser
\* request; the browser is asked only after a static attempt that failed or
\* was insufficient and only when use_playwright is set; without it an
\* insufficient static attempt is the end of the fetch, and so is a browser
\* attempt that fails.
C16_OneStaticThenOneRender ==
    \A u \in AllUrls :
        /\ gets[u] <= 1 /\ renders[u] <= 1
        /\ renders[u] = 1 => (gets[u] = 1 /\ u \in insufficient /\ use_playwright)
        /\ (u \in insufficient /\ ~use_playwright) => (renders[u] = 0 /\ u \in fetch_failed)
        /\ (u \in fetch_failed /\ u # EmptyUrl) =>
               (gets[u] = 1 /\ renders[u] = (IF use_playwright THEN 1 ELSE 0))

\* C16's case: one URL was fetched statically without the browser, another
\* went to the browser after its static attempt and the browser failed.
C16_Witness ==
    /\ outcome = "returned"
    /\ use_playwright
    /\ \E u \in visited_urls : gets[u] = 1 /\ renders[u] = 0 /\ u \notin fetch_failed
    /\ \E u \in visited_urls : gets[u] = 1 /\ renders[u] = 1 /\ u \in fetch_failed

\* C17: the crawl visits the URLs in the order in which they were added to
\* pages_to_visit: every pop takes the URL that has been in it longest.
C17_PopsInFifoOrder ==
    [][(pc = "loop" /\ pc' = "fetch") => current_url' = Head(queue)]_vars

\* A ceiling below the number of pages of the site.
PageCeiling == NumPaths - 1

\* C18: the number of URLs visited in a run does not exceed the ceiling.
C18_StopsAtCeiling == Cardinality(visited_urls) <= PageCeiling

\* C19: pages_to_visit and visited_urls are disjoint, and the branch that
\* discards a popped URL already visited (the one step from the loop's head
\* back to it) is never taken.
C19_FrontierDisjointFromVisited ==
    /\ [](pages_to_visit \cap visited_urls = {})
    /\ [][~(pc = "loop" /\ pc' = "loop")]_vars

\* C19's case: a page linked back to the root, which was visited by then,
\* other URLs were added, and the loop is at its head.
C19_Witness ==
    /\ pc = "loop"
    /\ url \in linked
    /\ pages_to_visit # {}
    /\ Cardinality(visited_urls) >= 2

\* C20: every URL in pages_to_visit, in visited_urls and in parsed_pages has
\* the host of the root URL.
C20_ConfinedToRootHost ==
    \A u \in pages_to_visit \cup visited_urls \cup UrlsOf(parsed_pages) :
        netloc(u) = netloc(url)

\* C20's case: a page other than the root had an anchor to another host,
\* and what its scan left in pages_to_visit is on the root's host.
C20_Witness ==
    /\ pc = "loop"
    /\ offsite
    /\ Len(parsed_pages) >= 2
    /\ pages_to_visit # {}

====
